---- MODULE Spec2Model ----
(***************************************************************************)
(* A model of the MDX importer war3/mdx.py.                                *)
(*                                                                         *)
(* Byte strings are sequences of 0..255 and every decoding step is         *)
(* computed on the bytes the way Python's struct module and bytes slicing  *)
(* compute it.  Loader.load is a sequence of steps over a file chosen in   *)
(* Init; the pure functions (the bounded-slice reader, face                *)
(* reconstruction, the keyframe decoder, the name decoder) also have       *)
(* specifications of their own that draw their inputs from bounded sets.   *)
(***************************************************************************)
EXTENDS Integers, Sequences, FiniteSets, TLC

VARIABLES
    pc,     \* position of the running call
    file,   \* the bytes of the stream handed to Loader (never written)
    self,   \* the Loader object: infile, infile_stack, model
    buf,    \* the block buffer of the chunk loop in progress
    i,      \* the offset of the chunk loop in progress
    err,    \* the exception that ended the call, "none" while there is none
    loc,    \* the locals of the record being decoded (mat, m, verts, ...)
    hist,   \* history: what the decode steps read (for stating the properties)
    arg,    \* the argument of the function under test (function specifications)
    ret     \* its result

vars == <<pc, file, self, buf, i, loc, err, hist, arg, ret>>

(***************************************************************************)
(* Bytes, Python slicing, struct                                           *)
(***************************************************************************)
Min(a, b) == IF a < b THEN a ELSE b
Max(a, b) == IF a > b THEN a ELSE b

\* F applied to the value of v: v is computed once, as a call computes its
\* result once before the code after it runs.
Bind(v, F(_)) == CHOOSE y \in {F(x) : x \in {v}} : TRUE

\* Python's b[lo:hi] on a bytes object, for any integers lo and hi.
PySlice(b, lo, hi) ==
    LET n   == Len(b)
        nlo == IF lo < 0 THEN Max(0, n + lo) ELSE Min(lo, n)
        nhi == IF hi < 0 THEN Max(0, n + hi) ELSE Min(hi, n)
    IN  IF nlo < nhi THEN SubSeq(b, nlo + 1, nhi) ELSE <<>>

\* struct '<i': four bytes, little-endian, two's complement.
unpack_i(b) ==
    b[1] + 256 * b[2] + 65536 * b[3]
         + 16777216 * (IF b[4] >= 128 THEN b[4] - 256 ELSE b[4])

\* struct '<h': two bytes, little-endian, two's complement.
unpack_h(b) ==
    b[1] + 256 * (IF b[2] >= 128 THEN b[2] - 256 ELSE b[2])

\* struct.unpack_from(fmt, buf, offset) for a format of `size` bytes: the bytes
\* it decodes, or struct.error.  A negative offset counts from the end.
unpack_from(size, b, offset) ==
    LET n   == Len(b)
        off == IF offset < 0 THEN offset + n ELSE offset
    IN  IF off < 0 \/ n - off < size
        THEN [err |-> "struct.error", val |-> <<>>]
        ELSE [err |-> "none", val |-> SubSeq(b, off + 1, off + size)]

\* The little-endian encodings, used to lay out the input files (\div rounds
\* down, so a negative v comes out in two's complement).
pack_i(v) ==
    <<v % 256, (v \div 256) % 256, (v \div 65536) % 256, (v \div 16777216) % 256>>

pack_h(v) == <<v % 256, (v \div 256) % 256>>

Zeros(n) == [k \in 1..n |-> 0]

RECURSIVE Flatten(_)
Flatten(ss) == IF ss = <<>> THEN <<>> ELSE Head(ss) \o Flatten(Tail(ss))

RECURSIVE SumSeq(_)
SumSeq(s) == IF s = <<>> THEN 0 ELSE Head(s) + SumSeq(Tail(s))

\* All sequences over S of length at most n.
SeqsUpTo(S, n) == UNION {[1..k -> S] : k \in 0..n}

(***************************************************************************)
(* _ReadonlyBytesIO and the stream                                         *)
(***************************************************************************)
\* A reader is [kind, buf, idx]: kind "bytes" is a _ReadonlyBytesIO over buf
\* with cursor idx; kind "file" is the stream, whose idx is its position in
\* `file`.
ReadonlyBytesIO(b, idx) == [kind |-> "bytes", buf |-> b, idx |-> idx]

\* _ReadonlyBytesIO.read: the cursor is moved before the slice is taken.
ReadonlyBytesIO_read(rd, n) ==
    IF n < 0 \/ Len(rd.buf) - rd.idx < n
    THEN [data |-> PySlice(rd.buf, Len(rd.buf), Len(rd.buf)),
          rd   |-> [rd EXCEPT !.idx = Len(rd.buf)]]
    ELSE [data |-> PySlice(rd.buf, rd.idx, rd.idx + n),
          rd   |-> [rd EXCEPT !.idx = rd.idx + n]]

\* read(n) on the stream: the next n bytes, fewer at the end of file.
file_read(rd, n) ==
    LET data == PySlice(file, rd.idx, IF n < 0 THEN Len(file) ELSE rd.idx + n)
    IN  [data |-> data, rd |-> [rd EXCEPT !.idx = rd.idx + Len(data)]]

\* self.infile.read(n) on whichever reader is active.
read(rd, n) ==
    IF rd.kind = "bytes" THEN ReadonlyBytesIO_read(rd, n) ELSE file_read(rd, n)

(***************************************************************************)
(* Tags                                                                    *)
(***************************************************************************)
MDLX == <<77, 68, 76, 88>>
VERS == <<86, 69, 82, 83>>
MODL == <<77, 79, 68, 76>>
SEQS == <<83, 69, 81, 83>>
GLBS == <<71, 76, 66, 83>>
MTLS == <<77, 84, 76, 83>>
LAYS == <<76, 65, 89, 83>>
TEXS == <<84, 69, 88, 83>>
TXAN == <<84, 88, 65, 78>>
GEOS == <<71, 69, 79, 83>>
VRTX == <<86, 82, 84, 88>>
NRMS == <<78, 82, 77, 83>>
PTYP == <<80, 84, 89, 80>>
PCNT == <<80, 67, 78, 84>>
PVTX == <<80, 86, 84, 88>>
GNDX == <<71, 78, 68, 88>>
KMTA == <<75, 77, 84, 65>>
KMTF == <<75, 77, 84, 70>>
KTAT == <<75, 84, 65, 84>>
KTAR == <<75, 84, 65, 82>>
KTAS == <<75, 84, 65, 83>>

(***************************************************************************)
(* Values of the data model                                                *)
(***************************************************************************)
\* Python's None, and an optional value as a sequence of at most one element.
None == <<>>
Some(v) == <<v>>

\* Model(): the empty aggregate.
Model ==
    [version |-> None, model |-> None, sequences |-> <<>>,
     global_sequences |-> <<>>, materials |-> <<>>, textures |-> <<>>,
     texture_anims |-> <<>>, geosets |-> <<>>]

\* Loader.__init__
Loader(infile) == [infile |-> infile, infile_stack |-> <<>>, model |-> Model]

\* The interpolation kinds, by the integer codes of the format.
LineType(v) ==
    CASE v = 0 -> [err |-> "none", val |-> "DontInterp"]
      [] v = 1 -> [err |-> "none", val |-> "Linear"]
      [] v = 2 -> [err |-> "none", val |-> "Hermite"]
      [] v = 3 -> [err |-> "none", val |-> "Bezier"]
      [] OTHER -> [err |-> "ValueError", val |-> "none"]

\* The primitive kinds, by the integer codes of the format.
PrimitiveType(v) ==
    IF v \in 0..9 THEN [err |-> "none", val |-> v]
    ELSE [err |-> "ValueError", val |-> 0]

\* bool(v & (1 << k)) on a Python int.
bit(v, k) == (v \div (2 ^ k)) % 2 = 1

\* bool(x) on a float given by its four bytes: false for 0.0 and -0.0.
bool_f(b) == ~(b[1] = 0 /\ b[2] = 0 /\ b[3] = 0 /\ b[4] \in {0, 128})

\* The floats of a '<3f' field, each kept as its four bytes.
floats3(b) == <<SubSeq(b, 1, 4), SubSeq(b, 5, 8), SubSeq(b, 9, 12)>>

(***************************************************************************)
(* Fixed-length names                                                      *)
(***************************************************************************)
\* bytes.rstrip(b'\x00'): the trailing null bytes are removed.
rstrip(field) ==
    Bind(field, LAMBDA b :
        LET last == CHOOSE k \in 0..Len(b) :
                        /\ k = 0 \/ b[k] # 0
                        /\ \A m \in (k + 1)..Len(b) : b[m] = 0
        IN  SubSeq(b, 1, last))

\* bytes.decode("ascii"): the code points of the bytes, or UnicodeDecodeError.
decode_ascii(bytes) ==
    Bind(bytes, LAMBDA b :
        IF \E k \in 1..Len(b) : b[k] >= 128
        THEN [err |-> "UnicodeDecodeError", val |-> <<>>]
        ELSE [err |-> "none", val |-> b])

\* name.rstrip(b'\x00').decode("ascii")
decode_name(field) == decode_ascii(rstrip(field))

(***************************************************************************)
(* Loader: the reader stack and the chunk framer                           *)
(***************************************************************************)
\* A result is [err, self, val]: the exception raised ("none" for a return),
\* the Loader as the call left it, and the value returned.
Ok(s, v) == [err |-> "none", self |-> s, val |-> v]
Raise(s, e) == [err |-> e, self |-> s, val |-> <<>>]

push_infile(s, infile) ==
    [s EXCEPT !.infile_stack = Append(s.infile_stack, s.infile),
              !.infile = infile]

\* pop_infile as it would be if it dropped the stacked reader without making
\* it the active one again.
pop_infile_drop(s) ==
    [s EXCEPT !.infile_stack = SubSeq(s.infile_stack, 1, Len(s.infile_stack) - 1)]

pop_infile(s) ==
    [s EXCEPT !.infile = s.infile_stack[Len(s.infile_stack)],
              !.infile_stack = SubSeq(s.infile_stack, 1, Len(s.infile_stack) - 1)]

check_magic_number(s) ==
    Bind(read(s.infile, 4), LAMBDA r :
        IF r.data # MDLX THEN Raise([s EXCEPT !.infile = r.rd], "LoadError")
        ELSE Ok([s EXCEPT !.infile = r.rd], <<>>))

check_block_magic(s, magic) ==
    Bind(read(s.infile, 4), LAMBDA r :
        IF r.data # magic THEN Raise([s EXCEPT !.infile = r.rd], "LoadError")
        ELSE Ok([s EXCEPT !.infile = r.rd], <<>>))

\* n, = struct.unpack('<i', self.infile.read(4))
read_int(s) ==
    Bind(read(s.infile, 4), LAMBDA r :
        IF Len(r.data) # 4 THEN Raise([s EXCEPT !.infile = r.rd], "struct.error")
        ELSE Ok([s EXCEPT !.infile = r.rd], unpack_i(r.data)))

load_block(s) ==
    Bind(read_int(s), LAMBDA n :
        IF n.err # "none" THEN n
        ELSE IF n.val < 0 THEN Raise(n.self, "LoadError")
        ELSE Bind(read(n.self.infile, n.val), LAMBDA r :
                 Ok([n.self EXCEPT !.infile = r.rd], r.data)))

\* check_block_magic(magic) and then load_block().
load_chunk(s, magic) ==
    Bind(check_block_magic(s, magic), LAMBDA c :
        IF c.err # "none" THEN c ELSE load_block(c.self))

(***************************************************************************)
(* Loader: the fixed-record chunks                                         *)
(***************************************************************************)
load_version(s) ==
    Bind(load_chunk(s, VERS), LAMBDA b :
        IF b.err # "none" THEN b
        ELSE IF Len(b.val) # 4 THEN Raise(b.self, "struct.error")
        ELSE Ok([b.self EXCEPT !.model.version = unpack_i(b.val)], <<>>))

\* ModelInfo(name, bounds_radius, min_extent, max_extent, blend_time) of a
\* block of at least 112 bytes whose name decodes.
ModelInfo(b, name) ==
    [name          |-> name,
     bounds_radius |-> SubSeq(b, 81, 84),
     min_extent    |-> floats3(SubSeq(b, 85, 96)),
     max_extent    |-> floats3(SubSeq(b, 97, 108)),
     blend_time    |-> unpack_i(SubSeq(b, 109, 112))]

load_modelinfo(s) ==
    Bind(load_chunk(s, MODL), LAMBDA b :
        IF b.err # "none" THEN b
        ELSE IF Len(b.val) < 80 THEN Raise(b.self, "struct.error")
        ELSE Bind(decode_name(SubSeq(b.val, 1, 80)), LAMBDA name :
                 IF name.err # "none" THEN Raise(b.self, name.err)
                 ELSE IF Len(b.val) < 112 THEN Raise(b.self, "struct.error")
                 ELSE Ok([b.self EXCEPT !.model.model = ModelInfo(b.val, name.val)],
                         <<>>)))

\* One record of load_sequences, '<80s 2i f i f 4x f 3f 3f' at offset k.
Animation(b, k) ==
    Bind(unpack_from(132, b, k), LAMBDA t :
        IF t.err # "none" THEN t
        ELSE Bind(decode_name(SubSeq(t.val, 1, 80)), LAMBDA name :
            IF name.err # "none" THEN name
            ELSE [err |-> "none",
                  val |-> [name          |-> name.val,
                           interval      |-> <<unpack_i(SubSeq(t.val, 81, 84)),
                                               unpack_i(SubSeq(t.val, 85, 88))>>,
                           move_speed    |-> unpack_i(SubSeq(t.val, 93, 96)),
                           non_looping   |-> bool_f(SubSeq(t.val, 97, 100)),
                           rarity        |-> SubSeq(t.val, 105, 108),
                           bounds_radius |-> SubSeq(t.val, 109, 112),
                           min_extent    |-> floats3(SubSeq(t.val, 113, 124)),
                           max_extent    |-> <<SubSeq(t.val, 125, 128),
                                               SubSeq(t.val, 129, 132)>>]]))

\* One record of load_textures, '<i 256s 4x i' at offset k.
Texture(b, k) ==
    Bind(unpack_from(268, b, k), LAMBDA t :
        IF t.err # "none" THEN t
        ELSE Bind(decode_name(SubSeq(t.val, 5, 260)), LAMBDA path :
            IF path.err # "none" THEN path
            ELSE [err |-> "none",
                  val |-> [rid    |-> unpack_i(SubSeq(t.val, 1, 4)),
                           path   |-> path.val,
                           wrap_w |-> bit(unpack_i(SubSeq(t.val, 265, 268)), 0),
                           wrap_h |-> bit(unpack_i(SubSeq(t.val, 265, 268)), 1)]]))

\* One record of load_global_sequences, '<i' at offset k.
Duration(b, k) ==
    Bind(unpack_from(4, b, k), LAMBDA t :
        IF t.err # "none" THEN t ELSE [err |-> "none", val |-> unpack_i(t.val)])

\* for k in range(k, len(buf), size): the records decoded, until one fails.
RECURSIVE tile(_, _, _, _, _)
tile(kind, b, k, size, acc) ==
    IF k >= Len(b) THEN [err |-> "none", val |-> acc]
    ELSE Bind(CASE kind = "Animation" -> Animation(b, k)
                [] kind = "Texture"   -> Texture(b, k)
                [] OTHER              -> Duration(b, k),
              LAMBDA t :
                  IF t.err # "none" THEN [err |-> t.err, val |-> acc]
                  ELSE tile(kind, b, k + size, size, Append(acc, t.val)))

\* The records appended before an error stay in the model.
load_sequences(s) ==
    Bind(load_chunk(s, SEQS), LAMBDA b :
        IF b.err # "none" THEN b
        ELSE Bind(tile("Animation", b.val, 0, 132, b.self.model.sequences),
                  LAMBDA t : [err |-> t.err, val |-> <<>>,
                              self |-> [b.self EXCEPT !.model.sequences = t.val]]))

load_global_sequences(s) ==
    Bind(load_chunk(s, GLBS), LAMBDA b :
        IF b.err # "none" THEN b
        ELSE Bind(tile("Duration", b.val, 0, 4, b.self.model.global_sequences),
                  LAMBDA t : [err |-> t.err, val |-> <<>>,
                              self |-> [b.self EXCEPT
                                           !.model.global_sequences = t.val]]))

load_textures(s) ==
    Bind(load_chunk(s, TEXS), LAMBDA b :
        IF b.err # "none" THEN b
        ELSE Bind(tile("Texture", b.val, 0, 268, b.self.model.textures),
                  LAMBDA t : [err |-> t.err, val |-> <<>>,
                              self |-> [b.self EXCEPT !.model.textures = t.val]]))

(***************************************************************************)
(* Loader: keyframe tracks                                                 *)
(***************************************************************************)
\* fn_val of load_material_keyframe: (frame, value) in 8 bytes; the value is a
\* float under '<i f' and an int under '<2i'.
material_fn_val(fmt, b, j) ==
    Bind(unpack_from(8, b, j), LAMBDA t :
        IF t.err # "none" THEN [err |-> t.err, j |-> j]
        ELSE [err |-> "none", j |-> j + 8,
              frame |-> unpack_i(SubSeq(t.val, 1, 4)),
              value |-> IF fmt = "<i f" THEN SubSeq(t.val, 5, 8)
                        ELSE unpack_i(SubSeq(t.val, 5, 8))])

\* fn_tan of load_material_keyframe: (tin, tout) in 8 bytes.
material_fn_tan(fmt, b, j) ==
    Bind(unpack_from(8, b, j), LAMBDA t :
        IF t.err # "none" THEN [err |-> t.err, j |-> j]
        ELSE [err |-> "none", j |-> j + 8,
              tin  |-> IF fmt = "<2f" THEN SubSeq(t.val, 1, 4)
                       ELSE unpack_i(SubSeq(t.val, 1, 4)),
              tout |-> IF fmt = "<2f" THEN SubSeq(t.val, 5, 8)
                       ELSE unpack_i(SubSeq(t.val, 5, 8))])

\* fn_val of load_texture_keyframe: '<i 3f', 16 bytes.
texture_fn_val(b, j) ==
    Bind(unpack_from(16, b, j), LAMBDA t :
        IF t.err # "none" THEN [err |-> t.err, j |-> j]
        ELSE [err |-> "none", j |-> j + 16,
              frame |-> unpack_i(SubSeq(t.val, 1, 4)),
              value |-> floats3(SubSeq(t.val, 5, 16))])

\* fn_tan of load_texture_keyframe: '<3f 3f', 24 bytes.
texture_fn_tan(b, j) ==
    Bind(unpack_from(24, b, j), LAMBDA t :
        IF t.err # "none" THEN [err |-> t.err, j |-> j]
        ELSE [err |-> "none", j |-> j + 24,
              tin  |-> floats3(SubSeq(t.val, 1, 12)),
              tout |-> floats3(SubSeq(t.val, 13, 24))])

\* The pair (fn_val, fn_tan) handed to load_keyframe.
fn_val(fns, b, j) ==
    IF fns.of = "material" THEN material_fn_val(fns.fmt_val, b, j)
    ELSE texture_fn_val(b, j)

fn_tan(fns, b, j) ==
    IF fns.of = "material" THEN material_fn_tan(fns.fmt_tan, b, j)
    ELSE texture_fn_tan(b, j)

\* The tangent test as it would be if it named one kind only.
has_tangents_hermite(linetype) == linetype = "Hermite"

\* linetype in (LineType.Hermite, LineType.Bezier)
has_tangents(linetype) == linetype \in {"Hermite", "Bezier"}

\* Keyframe(frame, value, tin, tout)
Keyframe(v, t) ==
    [frame |-> v.frame, value |-> v.value, tin |-> t.tin, tout |-> t.tout]

\* The loop of load_keyframe with k keys still to decode.
RECURSIVE keyframes(_, _, _, _, _)
keyframes(b, j, k, fns, anim) ==
    IF k <= 0 THEN [err |-> "none", j |-> j, val |-> anim]
    ELSE Bind(fn_val(fns, b, j), LAMBDA v :
        IF v.err # "none" THEN [err |-> v.err, j |-> j, val |-> anim]
        ELSE Bind(IF has_tangents(anim.linetype)
                  THEN Bind(fn_tan(fns, b, v.j), LAMBDA t :
                           IF t.err # "none"
                           THEN [err |-> t.err, j |-> v.j, tin |-> None,
                                 tout |-> None]
                           ELSE [err |-> "none", j |-> t.j, tin |-> Some(t.tin),
                                 tout |-> Some(t.tout)])
                  ELSE [err |-> "none", j |-> v.j, tin |-> None, tout |-> None],
                  LAMBDA t :
            IF t.err # "none" THEN [err |-> t.err, j |-> j, val |-> anim]
            ELSE keyframes(b, t.j, k - 1, fns,
                           [anim EXCEPT !.keyframes = Append(@, Keyframe(v, t))])))

\* load_keyframe: returns (j, anim) as [err, j, val].
load_keyframe(b, j, target, fns) ==
    Bind(unpack_from(12, b, j + 4), LAMBDA t :
        IF t.err # "none" THEN [err |-> t.err, j |-> j, val |-> <<>>]
        ELSE Bind(LineType(unpack_i(SubSeq(t.val, 5, 8))), LAMBDA linetype :
            IF linetype.err # "none"
            THEN [err |-> linetype.err, j |-> j, val |-> <<>>]
            ELSE keyframes(b, j + 16, unpack_i(SubSeq(t.val, 1, 4)), fns,
                           [target |-> target, linetype |-> linetype.val,
                            gsid |-> unpack_i(SubSeq(t.val, 9, 12)),
                            keyframes |-> <<>>])))

\* The error of an unknown sub-tag: the message decodes the tag as ASCII.
unknown_tag(magic) ==
    IF decode_ascii(magic).err # "none" THEN "UnicodeDecodeError"
    ELSE "LoadError"

load_material_keyframe(b, j) ==
    Bind(PySlice(b, j, j + 4), LAMBDA magic :
        IF magic = KMTA
        THEN load_keyframe(b, j, "MaterialAlpha",
                 [of |-> "material", fmt_val |-> "<i f", fmt_tan |-> "<2f"])
        ELSE IF magic = KMTF
        THEN load_keyframe(b, j, "MaterialTexture",
                 [of |-> "material", fmt_val |-> "<2i", fmt_tan |-> "<2i"])
        ELSE [err |-> unknown_tag(magic), j |-> j, val |-> <<>>])

load_texture_keyframe(b, j) ==
    Bind(PySlice(b, j, j + 4), LAMBDA magic :
        IF magic = KTAT
        THEN load_keyframe(b, j, "TextureAnimTranslation",
                 [of |-> "texture", fmt_val |-> "<i 3f", fmt_tan |-> "<3f 3f"])
        ELSE IF magic = KTAR
        THEN load_keyframe(b, j, "TextureAnimRotation",
                 [of |-> "texture", fmt_val |-> "<i 3f", fmt_tan |-> "<3f 3f"])
        ELSE IF magic = KTAS
        THEN load_keyframe(b, j, "TextureAnimScaling",
                 [of |-> "texture", fmt_val |-> "<i 3f", fmt_tan |-> "<3f 3f"])
        ELSE [err |-> unknown_tag(magic), j |-> j, val |-> <<>>])

(***************************************************************************)
(* Loader: layers                                                          *)
(***************************************************************************)
\* while j < n: j, anim = self.load_material_keyframe(buf, j)
RECURSIVE layer_animations(_, _, _)
layer_animations(b, j, acc) ==
    IF j >= Len(b) THEN [err |-> "none", val |-> acc]
    ELSE Bind(load_material_keyframe(b, j), LAMBDA a :
             IF a.err # "none" THEN [err |-> a.err, val |-> acc]
             ELSE layer_animations(b, a.j, Append(acc, a.val)))

\* Layer(t[0], bool(t[1] & 0x01), ..., t[2], t[3], t[4], t[5]) of '<5i f'.
Layer(t) ==
    [args |-> <<unpack_i(SubSeq(t, 1, 4)),
                bit(unpack_i(SubSeq(t, 5, 8)), 0), bit(unpack_i(SubSeq(t, 5, 8)), 1),
                bit(unpack_i(SubSeq(t, 5, 8)), 4), bit(unpack_i(SubSeq(t, 5, 8)), 5),
                bit(unpack_i(SubSeq(t, 5, 8)), 6), bit(unpack_i(SubSeq(t, 5, 8)), 7),
                unpack_i(SubSeq(t, 9, 12)), unpack_i(SubSeq(t, 13, 16)),
                unpack_i(SubSeq(t, 17, 20)), SubSeq(t, 21, 24)>>,
     animations |-> <<>>]

\* One pass of the loop of load_layers: the layer read from the reader.
layer(s) ==
    Bind(read_int(s), LAMBDA n :
        IF n.err # "none" THEN n
        ELSE Bind(read(n.self.infile, n.val - 4), LAMBDA r :
            Bind(unpack_from(24, r.data, 0), LAMBDA t :
                IF t.err # "none"
                THEN Raise([n.self EXCEPT !.infile = r.rd], t.err)
                ELSE Bind(layer_animations(r.data, 24, <<>>), LAMBDA a :
                    IF a.err # "none"
                    THEN Raise([n.self EXCEPT !.infile = r.rd], a.err)
                    ELSE Ok([n.self EXCEPT !.infile = r.rd],
                            [Layer(t.val) EXCEPT !.animations = a.val])))))

\* The loop of load_layers with k layers still to decode.
RECURSIVE layers(_, _, _)
layers(s, k, lays) ==
    IF k <= 0 THEN Ok(s, lays)
    ELSE Bind(layer(s), LAMBDA l :
             IF l.err # "none" THEN l
             ELSE layers(l.self, k - 1, Append(lays, l.val)))

load_layers(s) ==
    Bind(check_block_magic(s, LAYS), LAMBDA c :
        IF c.err # "none" THEN c
        ELSE Bind(read_int(c.self), LAMBDA n :
                 IF n.err # "none" THEN n
                 ELSE layers(n.self, n.val, <<>>)))

\* Material(t[1], bool(t[2] & 0x01), bool(t[2] & 0x10), bool(t[2] & 0x20))
Material(t) ==
    [args |-> <<unpack_i(SubSeq(t, 5, 8)), bit(unpack_i(SubSeq(t, 9, 12)), 0),
                bit(unpack_i(SubSeq(t, 9, 12)), 4),
                bit(unpack_i(SubSeq(t, 9, 12)), 5)>>,
     layers |-> <<>>]

(***************************************************************************)
(* Loader: vectors and faces                                               *)
(***************************************************************************)
\* struct.calcsize(type_)
calcsize(type_) ==
    CASE type_ = "<3f" -> 12
      [] type_ = "<i"  -> 4
      [] type_ = "<h"  -> 2
      [] type_ = "<B"  -> 1

\* t[0] if len(t) == 1 else t, for t = struct.unpack(type_, data)
vector(type_, data) ==
    CASE type_ = "<3f" -> floats3(data)
      [] type_ = "<i"  -> unpack_i(data)
      [] type_ = "<h"  -> unpack_h(data)
      [] type_ = "<B"  -> data[1]

\* The loop of load_vectors with k vectors still to read.
RECURSIVE vectors(_, _, _, _)
vectors(s, k, type_, acc) ==
    IF k <= 0 THEN Ok(s, acc)
    ELSE Bind(read(s.infile, calcsize(type_)), LAMBDA r :
             IF Len(r.data) # calcsize(type_)
             THEN Raise([s EXCEPT !.infile = r.rd], "struct.error")
             ELSE vectors([s EXCEPT !.infile = r.rd], k - 1, type_,
                          Append(acc, vector(type_, r.data))))

load_vectors(s, magic, type_) ==
    Bind(check_block_magic(s, magic), LAMBDA c :
        IF c.err # "none" THEN c
        ELSE Bind(read_int(c.self), LAMBDA n :
                 IF n.err # "none" THEN n
                 ELSE vectors(n.self, n.val, type_, <<>>)))

\* partition(elements, counts), run to its end: the sublists, or the
\* IndexError of elements[i] past the end.
RECURSIVE partition_from(_, _, _, _)
partition_from(elements, k, counts, acc) ==
    IF counts = <<>> THEN [err |-> "none", val |-> acc]
    ELSE IF k + Max(Head(counts), 0) > Len(elements)
    THEN [err |-> "IndexError", val |-> acc]
    ELSE partition_from(elements, k + Max(Head(counts), 0), Tail(counts),
                        Append(acc, SubSeq(elements, k + 1,
                                           k + Max(Head(counts), 0))))

\* partition as it would be if it never advanced its index i: every sublist
\* starts at the first element.
partition_restart(elements, counts) ==
    IF \E k \in 1..Len(counts) : counts[k] > Len(elements)
    THEN [err |-> "IndexError", val |-> <<>>]
    ELSE [err |-> "none",
          val |-> [k \in 1..Len(counts) |-> SubSeq(elements, 1, counts[k])]]

partition(elements, counts) == partition_from(elements, 0, counts, <<>>)

\* [PrimitiveType(t) for t in ...]
RECURSIVE primitive_types(_, _)
primitive_types(ts, acc) ==
    IF ts = <<>> THEN [err |-> "none", val |-> acc]
    ELSE IF PrimitiveType(Head(ts)).err # "none"
    THEN [err |-> PrimitiveType(Head(ts)).err, val |-> acc]
    ELSE primitive_types(Tail(ts), Append(acc, PrimitiveType(Head(ts)).val))

\* [Primitives(*t) for t in zip(ptyps, partition(pvtx, pcnts))]: zip draws
\* one sublist per kind and stops at the shorter of the two.
zip_primitives(ptyps, pvtx, pcnts) ==
    Bind(partition(pvtx, SubSeq(pcnts, 1, Min(Len(ptyps), Len(pcnts)))), LAMBDA p :
        IF p.err # "none" THEN p
        ELSE [err |-> "none",
              val |-> [k \in 1..Len(p.val) |->
                          [type |-> ptyps[k], indices |-> p.val[k]]]])

\* assert len(ptyps) == len(pcnts)
assert_counts(ptyps, pcnts) == Len(ptyps) = Len(pcnts)

\* load_faces as it would be without its second assertion.
assert_indices_off(pvtx, pcnts) == TRUE

\* assert len(pvtx) == sum(pcnts)
assert_indices(pvtx, pcnts) == Len(pvtx) = SumSeq(pcnts)

\* The result of load_faces: [err, self, val], and in `lists` the lists it
\* had read when it returned or raised.
Faces(e, s, v, l) == [err |-> e, self |-> s, val |-> v, lists |-> l]

load_faces(s) ==
    Bind(load_vectors(s, PTYP, "<i"), LAMBDA t :
    IF t.err # "none" THEN Faces(t.err, t.self, <<>>, <<>>)
    ELSE Bind(primitive_types(t.val, <<>>), LAMBDA pt :
    IF pt.err # "none" THEN Faces(pt.err, t.self, <<>>, <<>>)
    ELSE Bind(load_vectors(t.self, PCNT, "<i"), LAMBDA pcnts :
    IF pcnts.err # "none" THEN Faces(pcnts.err, pcnts.self, <<>>, <<pt.val>>)
    ELSE IF ~assert_counts(pt.val, pcnts.val)
    THEN Faces("AssertionError", pcnts.self, <<>>, <<pt.val, pcnts.val>>)
    ELSE Bind(load_vectors(pcnts.self, PVTX, "<h"), LAMBDA pvtx :
    IF pvtx.err # "none"
    THEN Faces(pvtx.err, pvtx.self, <<>>, <<pt.val, pcnts.val>>)
    ELSE IF ~assert_indices(pvtx.val, pcnts.val)
    THEN Faces("AssertionError", pvtx.self, <<>>,
               <<pt.val, pcnts.val, pvtx.val>>)
    ELSE Bind(zip_primitives(pt.val, pvtx.val, pcnts.val), LAMBDA z :
        Faces(z.err, pvtx.self, IF z.err = "none" THEN z.val ELSE <<>>,
              <<pt.val, pcnts.val, pvtx.val>>))))))

\* The function specifications leave the Loader idle, and load() leaves the
\* function harness idle.
NoArg == [f |-> "none"]
Idle == [infile |-> ReadonlyBytesIO(<<>>, 0), infile_stack |-> <<>>,
         model |-> <<>>]

(***************************************************************************)
(* The input files                                                         *)
(***************************************************************************)
MaxKeys == 1        \* most keyframes of a track of an input file
MaxFaces == 2       \* most entries of the PTYP, PCNT and PVTX lists of a file

\* A tag followed by the length and the bytes of its block.
Chunk(tag, payload) == tag \o pack_i(Len(payload)) \o payload

\* A fixed-length name field: the text, padded with null bytes.
NameField(text, width) == text \o Zeros(width - Len(text))

\* n bytes that are not null.
Fill(n) == [k \in 1..n |-> (k % 100) + 1]

BadTag == <<75, 88, 88, 88>>
BadTagNonAscii == <<75, 200, 88, 88>>

ModlBlock == NameField(<<87, 111, 108, 102>>, 80) \o Fill(28) \o pack_i(150)
SeqRecord == NameField(<<83, 116, 97, 110, 100>>, 80) \o pack_i(0) \o pack_i(33)
                 \o Fill(44)
TexRecord == pack_i(0) \o NameField(<<97, 46, 98>>, 256) \o Zeros(4) \o pack_i(3)

\* A keyframe track: tag, count, interpolation code, global sequence -1, and
\* `numkeys` entries of a frame and a value of w bytes, with two tangents of w
\* bytes each under hermite (2) and bezier (3).
TrackBytes(tag, numkeys, linetype, w) ==
    tag \o pack_i(numkeys) \o pack_i(linetype) \o pack_i(-1)
        \o Flatten([k \in 1..numkeys |->
                       pack_i(10 * k) \o Fill(w)
                           \o IF linetype \in {2, 3} THEN Fill(2 * w) ELSE <<>>])

\* A layer record: its own length, the '<5i f' fields, its tracks.
LayerBytes(tracks) ==
    pack_i(28 + Len(tracks)) \o pack_i(1) \o pack_i(17) \o pack_i(0)
        \o pack_i(-1) \o pack_i(0) \o Fill(4) \o tracks

\* The length a record declares for itself: its true one, zero, or negative.
Declared(how, n) ==
    CASE how = "exact" -> n
      [] how = "zero"  -> 0
      [] how = "back"  -> -n

\* A material record.
MaterialBytes(how, lays, nlays, layerBytes) ==
    LET rest == lays \o pack_i(nlays) \o layerBytes
    IN  pack_i(Declared(how, 12 + Len(rest)))
            \o pack_i(7) \o pack_i(17) \o rest

\* A TXAN group.
GroupBytes(how, tracks) == pack_i(Declared(how, 4 + Len(tracks))) \o tracks

\* The entries of a vector block, by the encoding of one entry.
RECURSIVE Entries(_, _)
Entries(type_, vs) ==
    IF vs = <<>> THEN <<>>
    ELSE (CASE type_ = "<i" -> pack_i(Head(vs))
            [] type_ = "<h" -> pack_h(Head(vs))
            [] type_ = "<B" -> <<Head(vs)>>
            [] OTHER        -> Fill(12)) \o Entries(type_, Tail(vs))

VectorBytes(tag, type_, vs) == tag \o pack_i(Len(vs)) \o Entries(type_, vs)

FacesBytes(ptyp, pcnt, pvtx) ==
    VectorBytes(PTYP, "<i", ptyp) \o VectorBytes(PCNT, "<i", pcnt)
        \o VectorBytes(PVTX, "<h", pvtx)

\* A geoset record.
GeosetBytes(how, verts, ptyp, pcnt, pvtx) ==
    LET rest == VectorBytes(VRTX, "<3f", verts) \o VectorBytes(NRMS, "<3f", verts)
                    \o FacesBytes(ptyp, pcnt, pvtx)
                    \o VectorBytes(GNDX, "<B", verts)
    IN  pack_i(Declared(how, 4 + Len(rest))) \o rest

\* A file: the header and the chunks in order; txan is None for a file with
\* no TXAN chunk.
FileBytes(seqs, mtls, texs, txan, geos) ==
    MDLX \o Chunk(VERS, pack_i(800)) \o Chunk(MODL, ModlBlock)
         \o Chunk(SEQS, seqs) \o Chunk(GLBS, pack_i(1000)) \o Chunk(MTLS, mtls)
         \o Chunk(TEXS, texs)
         \o (IF txan = None THEN <<>> ELSE Chunk(TXAN, txan[1]))
         \o Chunk(GEOS, geos)

\* The material tracks and the layers laid out in the files.
MaterialTracks ==
    {TrackBytes(tag, n, lt, 4) :
        tag \in {KMTA, KMTF, BadTag}, n \in 0..MaxKeys, lt \in {1, 2, 7}}

Materials ==
    {MaterialBytes("exact", LAYS, 0, <<>>),
     MaterialBytes("exact", BadTag, 0, <<>>),
     MaterialBytes("exact", LAYS, 1, <<>>),
     MaterialBytes("exact", LAYS, 1, LayerBytes(<<>>)),
     MaterialBytes("zero", LAYS, 1, LayerBytes(<<>>)),
     MaterialBytes("back", LAYS, 0, <<>>)}
    \cup {MaterialBytes("exact", LAYS, 1, LayerBytes(t)) : t \in MaterialTracks}

GoodMaterial ==
    MaterialBytes("exact", LAYS, 1, LayerBytes(TrackBytes(KMTA, 1, 2, 4)))

\* The texture-animation tracks and groups laid out in the files.
TextureTracks ==
    {TrackBytes(tag, n, lt, 12) :
        tag \in {KTAT, KTAR, KTAS, BadTagNonAscii}, n \in 0..MaxKeys, lt \in {1, 3}}

Groups ==
    {GroupBytes(k, <<>>) : k \in {"exact", "zero"}}
    \cup {GroupBytes(k, t) : k \in {"exact", "zero", "back"}, t \in TextureTracks}
    \cup {GroupBytes("exact", TrackBytes(KTAT, 0, 1, 12) \o t) : t \in TextureTracks}

GoodGroup == GroupBytes("exact", TrackBytes(KTAS, 1, 1, 12))

\* The geosets laid out in the files.
Geosets ==
    {GeosetBytes("exact", <<1>>, ptyp, pcnt, pvtx) :
        ptyp \in SeqsUpTo({4}, MaxFaces) \cup {<<11>>},
        pcnt \in SeqsUpTo({-1, 0, 1, 2}, MaxFaces),
        pvtx \in {<<>>, <<5>>, <<5, 6>>, <<5, 6, 7>>}}
    \cup {GeosetBytes(m, <<1>>, <<4>>, <<2>>, <<5, 6>>) : m \in {"zero", "back"}}

GoodGeoset == GeosetBytes("exact", <<1>>, <<4, 4>>, <<2, 1>>, <<5, 6, 7>>)

BaseFile ==
    FileBytes(SeqRecord, GoodMaterial, TexRecord, Some(GoodGroup), GoodGeoset)

Prefixes(f) == {SubSeq(f, 1, n) : n \in 0..Len(f)}

\* Every file varies one chunk of a well-formed file, or cuts a file short.
Files ==
    {FileBytes(<<>>, m1 \o m2, <<>>, None, GoodGeoset) :
        m1 \in {<<>>, GoodMaterial}, m2 \in Materials \cup {<<>>}}
    \cup {FileBytes(<<>>, GoodMaterial, <<>>, Some(g1 \o g2), GoodGeoset) :
        g1 \in {<<>>, GoodGroup}, g2 \in Groups \cup {<<>>}}
    \cup {FileBytes(<<>>, <<>>, <<>>, None, g) : g \in Geosets \cup {<<>>}}
    \cup {FileBytes(<<>>, <<>>, <<>>, None, GoodGeoset \o g) :
        g \in {GoodGeoset, GeosetBytes("exact", <<>>, <<>>, <<>>, <<>>),
               GeosetBytes("exact", <<1>>, <<4>>, <<2>>, <<5>>)}
               \cup {GeosetBytes(m, <<1>>, <<4>>, <<2>>, <<5, 6>>) :
                        m \in {"zero", "back"}}}
    \cup {FileBytes(s, GoodMaterial, t, x, GoodGeoset) :
        s \in {<<>>, SeqRecord, SubSeq(SeqRecord, 1, 100)},
        t \in {<<>>, TexRecord, [TexRecord EXCEPT ![6] = 0, ![8] = 200]},
        x \in {None, Some(GoodGroup)}}
    \cup Prefixes(BaseFile)
    \cup Prefixes(FileBytes(<<>>, <<>>, TexRecord, None, GoodGeoset))
    \cup Prefixes(FileBytes(<<>>, <<>>, <<>>, None, <<>>))

(***************************************************************************)
(* Loader.load, step by step                                               *)
(***************************************************************************)
MaxAppend == 3      \* cap on a model list grown by a chunk loop

Stream(pos) == [kind |-> "file", buf |-> <<>>, idx |-> pos]

\* probe: the stream position and the model at the TXAN probe; txan: the groups
\* decoded; faces: the lists of the last load_faces; geosets: the lists of each
\* geoset appended.
NoHist == [probe |-> None, txan |-> <<>>, faces |-> None, geosets |-> <<>>]

\* The call ends in an exception: the Loader stays as the raise left it.
Fail(s, e) ==
    /\ pc' = "failed"
    /\ err' = e
    /\ self' = s
    /\ UNCHANGED <<file, buf, i, loc, arg, ret>>

\* The call r of a Loader method returned or raised; load() goes on at `to`.
Return(to, r) ==
    IF r.err # "none" THEN Fail(r.self, r.err)
    ELSE /\ pc' = to
         /\ self' = r.self
         /\ UNCHANGED <<file, buf, i, loc, err, arg, ret>>

\* The top-level chunk r was read into buf; its loop starts at 0.
Block(to, r) ==
    IF r.err # "none" THEN Fail(r.self, r.err)
    ELSE /\ pc' = to
         /\ self' = r.self
         /\ buf' = r.val
         /\ i' = 0
         /\ UNCHANGED <<file, loc, err, arg, ret>>

CheckMagicNumber ==
    /\ pc = "check_magic_number"
    /\ \E r \in {check_magic_number(self)} : Return("load_version", r)
    /\ UNCHANGED hist

LoadVersion ==
    /\ pc = "load_version"
    /\ \E r \in {load_version(self)} : Return("load_modelinfo", r)
    /\ UNCHANGED hist

LoadModelinfo ==
    /\ pc = "load_modelinfo"
    /\ \E r \in {load_modelinfo(self)} : Return("load_sequences", r)
    /\ UNCHANGED hist

LoadSequences ==
    /\ pc = "load_sequences"
    /\ \E r \in {load_sequences(self)} : Return("load_global_sequences", r)
    /\ UNCHANGED hist

LoadGlobalSequences ==
    /\ pc = "load_global_sequences"
    /\ \E r \in {load_global_sequences(self)} : Return("load_materials", r)
    /\ UNCHANGED hist

LoadMaterials ==
    /\ pc = "load_materials"
    /\ \E r \in {load_chunk(self, MTLS)} : Block("materials_loop", r)
    /\ UNCHANGED hist

\* while i < n: the header of the material at i, then push_infile.
MaterialPush ==
    /\ pc = "materials_loop"
    /\ Len(self.model.materials) < MaxAppend
    /\ IF i >= Len(buf)
       THEN /\ pc' = "load_textures"
            /\ UNCHANGED <<file, self, buf, i, loc, err, arg, ret>>
       ELSE \E t \in {unpack_from(12, buf, i)} :
                IF t.err # "none" THEN Fail(self, t.err)
                ELSE /\ pc' = "material_layers"
                     /\ loc' = [t0  |-> unpack_i(SubSeq(t.val, 1, 4)),
                                mat |-> Material(t.val)]
                     /\ self' = push_infile(self, ReadonlyBytesIO(buf, i + 12))
                     /\ UNCHANGED <<file, buf, i, err, arg, ret>>
    /\ UNCHANGED hist

\* mat.layers = self.load_layers()
MaterialLayers ==
    /\ pc = "material_layers"
    /\ \E r \in {load_layers(self)} :
           IF r.err # "none" THEN Fail(r.self, r.err)
           ELSE /\ pc' = "material_pop"
                /\ self' = r.self
                /\ loc' = [loc EXCEPT !.mat.layers = r.val]
                /\ UNCHANGED <<file, buf, i, err, arg, ret>>
    /\ UNCHANGED hist

\* self.pop_infile(); self.model.materials.append(mat); i += t[0]
MaterialPop ==
    /\ pc = "material_pop"
    /\ pc' = "materials_loop"
    /\ self' = [pop_infile(self) EXCEPT !.model.materials = Append(@, loc.mat)]
    /\ i' = i + loc.t0
    /\ UNCHANGED <<file, buf, loc, err, hist, arg, ret>>

LoadTextures ==
    /\ pc = "load_textures"
    /\ \E r \in {load_textures(self)} : Return("load_texture_animations", r)
    /\ UNCHANGED hist

\* self.infile.seek(-4, io.SEEK_CUR): the position moves back by four.
seek_back(s) == [s EXCEPT !.infile.idx = s.infile.idx - 4]

\* The probe for the optional TXAN chunk: read(4), then either seek(-4,
\* SEEK_CUR) and return, or load_block().
LoadTextureAnimations ==
    /\ pc = "load_texture_animations"
    /\ \E r \in {read(self.infile, 4)} :
           IF r.data # TXAN
           THEN /\ hist' = [hist EXCEPT !.probe =
                               Some([pos |-> self.infile.idx, got |-> Len(r.data),
                                     model |-> self.model])]
                /\ pc' = "load_geosets"
                /\ self' = seek_back([self EXCEPT !.infile = r.rd])
                /\ UNCHANGED <<file, buf, i, loc, err, arg, ret>>
           ELSE /\ \E b \in {load_block([self EXCEPT !.infile = r.rd])} :
                       Block("texture_anims_loop", b)
                /\ UNCHANGED hist

\* while j < k: j, anim = self.load_texture_keyframe(buf, j); offs lists the
\* offsets the calls were made at.
RECURSIVE texture_group(_, _, _, _, _)
texture_group(b, j, k, anims, offs) ==
    IF j >= k THEN [err |-> "none", val |-> anims, offs |-> offs]
    ELSE Bind(load_texture_keyframe(b, j), LAMBDA a :
             IF a.err # "none"
             THEN [err |-> a.err, val |-> anims, offs |-> Append(offs, j)]
             ELSE texture_group(b, a.j, k, Append(anims, a.val), Append(offs, j)))

\* One iteration of the while i < n loop of load_texture_animations.
TextureAnimsGroup ==
    /\ pc = "texture_anims_loop"
    /\ Len(self.model.texture_anims) < MaxAppend
    /\ IF i >= Len(buf)
       THEN /\ pc' = "load_geosets"
            /\ UNCHANGED <<file, self, buf, i, loc, err, hist, arg, ret>>
       ELSE \E t \in {unpack_from(4, buf, i)} :
                IF t.err # "none" THEN Fail(self, t.err) /\ UNCHANGED hist
                ELSE \E g \in {texture_group(buf, 4, unpack_i(t.val), <<>>, <<>>)} :
                     /\ hist' = [hist EXCEPT !.txan =
                                    Append(@, [start |-> i, k |-> unpack_i(t.val),
                                               offs |-> g.offs])]
                     /\ IF g.err # "none" THEN Fail(self, g.err)
                        ELSE /\ pc' = pc
                             /\ self' = [self EXCEPT !.model.texture_anims =
                                            Append(@, g.val)]
                             /\ i' = i + unpack_i(t.val)
                             /\ UNCHANGED <<file, buf, loc, err, arg, ret>>

LoadGeosets ==
    /\ pc = "load_geosets"
    /\ \E r \in {load_chunk(self, GEOS)} : Block("geosets_loop", r)
    /\ UNCHANGED hist

\* while i < n: load_geoset reads m and pushes the reader; past the last
\* geoset load() returns self.model.
GeosetPush ==
    /\ pc = "geosets_loop"
    /\ Len(self.model.geosets) < MaxAppend
    /\ IF i >= Len(buf)
       THEN /\ pc' = "done"
            /\ UNCHANGED <<file, self, buf, i, loc, err, arg, ret>>
       ELSE \E m \in {unpack_from(4, buf, i)} :
                IF m.err # "none" THEN Fail(self, m.err)
                ELSE /\ pc' = "geoset_verts"
                     /\ loc' = [m |-> unpack_i(m.val), verts |-> <<>>,
                                norms |-> <<>>, faces |-> <<>>, lists |-> <<>>,
                                vgrps |-> <<>>]
                     /\ self' = push_infile(self, ReadonlyBytesIO(buf, i + 4))
                     /\ UNCHANGED <<file, buf, i, err, arg, ret>>
    /\ UNCHANGED hist

GeosetVerts ==
    /\ pc = "geoset_verts"
    /\ \E r \in {load_vectors(self, VRTX, "<3f")} :
           IF r.err # "none" THEN Fail(r.self, r.err)
           ELSE /\ pc' = "geoset_norms"
                /\ self' = r.self
                /\ loc' = [loc EXCEPT !.verts = r.val]
                /\ UNCHANGED <<file, buf, i, err, arg, ret>>
    /\ UNCHANGED hist

GeosetNorms ==
    /\ pc = "geoset_norms"
    /\ \E r \in {load_vectors(self, NRMS, "<3f")} :
           IF r.err # "none" THEN Fail(r.self, r.err)
           ELSE /\ pc' = "geoset_faces"
                /\ self' = r.self
                /\ loc' = [loc EXCEPT !.norms = r.val]
                /\ UNCHANGED <<file, buf, i, err, arg, ret>>
    /\ UNCHANGED hist

GeosetFaces ==
    /\ pc = "geoset_faces"
    /\ \E r \in {load_faces(self)} :
           /\ hist' = [hist EXCEPT !.faces = Some(r.lists)]
           /\ IF r.err # "none" THEN Fail(r.self, r.err)
              ELSE /\ pc' = "geoset_vgrps"
                   /\ self' = r.self
                   /\ loc' = [loc EXCEPT !.faces = r.val, !.lists = r.lists]
                   /\ UNCHANGED <<file, buf, i, err, arg, ret>>

GeosetVgrps ==
    /\ pc = "geoset_vgrps"
    /\ \E r \in {load_vectors(self, GNDX, "<B")} :
           IF r.err # "none" THEN Fail(r.self, r.err)
           ELSE /\ pc' = "geoset_pop"
                /\ self' = r.self
                /\ loc' = [loc EXCEPT !.vgrps = r.val]
                /\ UNCHANGED <<file, buf, i, err, arg, ret>>
    /\ UNCHANGED hist

\* Geoset(verts, norms, faces, vgrps)
Geoset(l) ==
    [verts |-> l.verts, norms |-> l.norms, faces |-> l.faces, vgrps |-> l.vgrps]

\* self.pop_infile(); self.model.geosets.append(Geoset(...)); i += m
GeosetPop ==
    /\ pc = "geoset_pop"
    /\ pc' = "geosets_loop"
    /\ self' = [pop_infile(self) EXCEPT !.model.geosets = Append(@, Geoset(loc))]
    /\ i' = i + loc.m
    /\ hist' = [hist EXCEPT !.geosets = Append(@, loc.lists)]
    /\ UNCHANGED <<file, buf, loc, err, arg, ret>>

Next ==
    \/ CheckMagicNumber
    \/ LoadVersion
    \/ LoadModelinfo
    \/ LoadSequences
    \/ LoadGlobalSequences
    \/ LoadMaterials
    \/ MaterialPush
    \/ MaterialLayers
    \/ MaterialPop
    \/ LoadTextures
    \/ LoadTextureAnimations
    \/ TextureAnimsGroup
    \/ LoadGeosets
    \/ GeosetPush
    \/ GeosetVerts
    \/ GeosetNorms
    \/ GeosetFaces
    \/ GeosetVgrps
    \/ GeosetPop

LoadInit ==
    /\ pc = "check_magic_number"
    /\ file \in Files
    /\ self = Loader(Stream(0))
    /\ buf = <<>>
    /\ i = 0
    /\ loc = <<>>
    /\ err = "none"
    /\ hist = NoHist
    /\ arg = NoArg
    /\ ret = NoArg

Spec == LoadInit /\ [][Next]_vars

(***************************************************************************)
(* Properties of Loader.load                                               *)
(***************************************************************************)
\* The reader is the stream handed to Loader and no reader is stacked.
OriginalStream(s) == s.infile.kind = "file" /\ s.infile_stack = <<>>

\* The positions of load() outside load_layers and load_geoset's sub-blocks.
TopLevel ==
    {"check_magic_number", "load_version", "load_modelinfo", "load_sequences",
     "load_global_sequences", "load_materials", "materials_loop",
     "load_textures", "load_texture_animations", "texture_anims_loop",
     "load_geosets", "geosets_loop", "done"}

\* C1: after any failed Loader.load the reader is the stream originally
\* supplied and the reader stack is empty: a failure inside a nested reader
\* scope restores the previous reader before the error propagates.
C1_ReaderRestoredOnFailure == pc = "failed" => OriginalStream(self)

\* C2: the reader stack holds 0 or 1 readers in every state of a decode; every
\* top-level chunk tag and block is read with the original stream active and
\* nothing stacked; and when load() returns a Model the stack is empty and the
\* active reader is the original stream.
C2_StackBalanced ==
    /\ Len(self.infile_stack) \in {0, 1}
    /\ pc \in TopLevel => OriginalStream(self)
    /\ pc \notin TopLevel \cup {"failed"} =>
          /\ self.infile.kind = "bytes"
          /\ Len(self.infile_stack) = 1
          /\ self.infile_stack[1].kind = "file"
    /\ pc = "done" => OriginalStream(self)

\* load() returned a Model after a material and a geoset each pushed and
\* popped a bounded reader.
C2_Witness ==
    /\ pc = "done"
    /\ Len(self.model.materials) >= 1
    /\ Len(self.model.geosets) >= 1

\* C3: when the four bytes probed after TEXS are not the tag TXAN, whatever
\* the number of bytes left in the stream, the stream position after the probe
\* is the position before it, texture_anims is empty and no other field of
\* the model has changed.
C3_ProbeLeavesPosition ==
    (pc = "load_geosets" /\ hist.probe # None) =>
        /\ self.infile.idx = hist.probe[1].pos
        /\ self.model.texture_anims = <<>>
        /\ self.model = hist.probe[1].model

\* C6: every Geoset appended to model.geosets has as many face groups as
\* primitive kinds were read and group sizes that sum to the number of PVTX
\* indices read; and lists that violate len(PTYP) = len(PCNT) or
\* sum(PCNT) = len(PVTX) make the decode fail (the assertion of load_faces)
\* instead of yielding a Geoset.
C6_GeosetInvariants ==
    /\ Len(hist.geosets) = Len(self.model.geosets)
    /\ \A g \in 1..Len(self.model.geosets) :
          LET l == hist.geosets[g]
              f == self.model.geosets[g].faces
          IN  /\ Len(l) = 3
              /\ Len(l[1]) = Len(l[2])
              /\ SumSeq(l[2]) = Len(l[3])
              /\ Len(f) = Len(l[1])
              /\ SumSeq([k \in 1..Len(f) |-> Len(f[k].indices)]) = Len(l[3])
    /\ hist.faces # None =>
          LET l == hist.faces[1]
          IN  (\/ Len(l) >= 2 /\ Len(l[1]) # Len(l[2])
               \/ Len(l) = 3 /\ SumSeq(l[2]) # Len(l[3]))
              => pc = "failed" /\ err = "AssertionError"

\* One geoset was appended and the next one, whose PCNT does not sum to the
\* length of its PVTX, made the decode fail.
C6_Witness ==
    /\ pc = "failed"
    /\ err = "AssertionError"
    /\ Len(self.model.geosets) = 1
    /\ Len(self.model.geosets[1].faces) = 2
    /\ hist.faces # None
    /\ Len(hist.faces[1]) = 3

\* C9: in a TXAN block the tracks of group g, which starts at offset s_g and
\* declares length k_g, are decoded from offsets within [s_g + 4, s_g + k_g),
\* so the offsets tracks are decoded from increase strictly over the block and
\* no group decodes bytes of an earlier group again.
C9_GroupsDecodedInOrder ==
    /\ \A g \in 1..Len(hist.txan) :
          \A n \in 1..Len(hist.txan[g].offs) :
              /\ hist.txan[g].start + 4 <= hist.txan[g].offs[n]
              /\ hist.txan[g].offs[n] < hist.txan[g].start + hist.txan[g].k
    /\ LET all == Flatten([g \in 1..Len(hist.txan) |-> hist.txan[g].offs])
       IN  \A n \in 1..(Len(all) - 1) : all[n] < all[n + 1]

\* C10: each iteration of the self-length-prefixed loops of load_materials,
\* load_texture_animations and load_geosets moves the block offset strictly
\* forward, so that the loop reaches the end of its block and load() ends.
C10_LoopsAdvance ==
    [][/\ pc = "material_pop" => i' > i
       /\ pc = "geoset_pop" => i' > i
       /\ (pc = "texture_anims_loop" /\ pc' = "texture_anims_loop") => i' > i]_vars

(***************************************************************************)
(* Bounds of the function specifications                                   *)
(***************************************************************************)
MaxBufLen == 3      \* longest buffer of the bounded-reader specification
MaxRead == 4        \* largest read request of the bounded-reader specification
MaxIndices == 4     \* longest PVTX list of the face specification
MaxCount == 2       \* most keyframes of a track of the keyframe specification
MaxCut == 1         \* most bytes cut off the end of a track's buffer
MaxName == 3        \* longest text laid out in a name field

(***************************************************************************)
(* Specification of _ReadonlyBytesIO.read                                  *)
(***************************************************************************)
ReadInit ==
    /\ pc = "reader"
    /\ file = <<>>
    /\ self = Idle
    /\ buf = <<>>
    /\ i = 0
    /\ loc = <<>>
    /\ err = "none"
    /\ hist = NoHist
    /\ \E b \in SeqsUpTo({65, 66}, MaxBufLen) : \E idx \in 0..Len(b) :
          arg = [f |-> "read", rd |-> ReadonlyBytesIO(b, idx), n |-> 0]
    /\ ret = [data |-> <<>>, rd |-> arg.rd]

\* One call rd.read(n) on the reader the previous call left.
ReadCall ==
    /\ pc = "reader"
    /\ \E n \in 0..MaxRead :
          /\ arg' = [f |-> "read", rd |-> ret.rd, n |-> n]
          /\ ret' = ReadonlyBytesIO_read(ret.rd, n)
    /\ UNCHANGED <<pc, file, self, buf, i, loc, err, hist>>

ReadSpec == ReadInit /\ [][ReadCall]_vars

\* C4: read(n), n >= 0, returns exactly buf[idx : min(idx+n, len(buf))] and
\* moves the cursor to min(idx+n, len(buf)): a request that exceeds the bytes
\* that remain returns all of them, and one that fits returns exactly n bytes.
C4_ReadReturnsRemaining ==
    arg.f = "read" =>
        LET b   == arg.rd.buf
            end == Min(arg.rd.idx + arg.n, Len(b))
        IN  /\ ret.data = PySlice(b, arg.rd.idx, end)
            /\ ret.rd.idx = end

(***************************************************************************)
(* Specification of load_faces                                             *)
(***************************************************************************)
\* The state of a function specification before its call.
Harness(a) ==
    /\ pc = "call"
    /\ file = <<>>
    /\ self = Idle
    /\ buf = <<>>
    /\ i = 0
    /\ loc = <<>>
    /\ err = "none"
    /\ hist = NoHist
    /\ arg = a
    /\ ret = NoArg

\* The PVTX lists: n distinct indices.
Indices(n) == [k \in 1..n |-> 4 + k]

FacesInit ==
    \E ptyp \in SeqsUpTo({4, 5}, MaxFaces) :
    \E pcnt \in SeqsUpTo({-1, 0, 1, 2, 3}, MaxFaces) :
    \E n \in 0..MaxIndices :
        Harness([f |-> "load_faces", ptyp |-> ptyp, pcnt |-> pcnt,
                 pvtx |-> Indices(n)])

\* load_faces on a bounded reader over the three lists as the file lays them
\* out.
FacesCall ==
    /\ pc = "call"
    /\ arg.f = "load_faces"
    /\ \E r \in {load_faces(Loader(ReadonlyBytesIO(
                     FacesBytes(arg.ptyp, arg.pcnt, arg.pvtx), 0)))} :
           /\ ret' = r
           /\ self' = r.self
           /\ err' = r.err
    /\ pc' = "return"
    /\ UNCHANGED <<file, buf, i, loc, hist, arg>>

FacesSpec == FacesInit /\ [][FacesCall]_vars

\* The groups returned are the consecutive sublists of PVTX of the lengths in
\* PCNT, in order, each paired with its kind in PTYP.
FacesPartitioned ==
    /\ ret.err = "none"
    /\ Len(ret.val) = Len(arg.pcnt)
    /\ \A k \in 1..Len(ret.val) :
          /\ PrimitiveType(arg.ptyp[k]).val = ret.val[k].type
          /\ Len(ret.val[k].indices) = arg.pcnt[k]
    /\ Flatten([k \in 1..Len(ret.val) |-> ret.val[k].indices]) = arg.pvtx

\* C5, as stated: for every PTYP, PCNT and PVTX with len(PTYP) = len(PCNT) and
\* sum(PCNT) = len(PVTX), load_faces returns len(PCNT) groups, group k of kind
\* PTYP[k] with PCNT[k] indices, whose concatenation is PVTX.
C5_FacesPartitionAnyCounts ==
    (/\ arg.f = "load_faces"
     /\ pc = "return"
     /\ Len(arg.ptyp) = Len(arg.pcnt)
     /\ SumSeq(arg.pcnt) = Len(arg.pvtx)) => FacesPartitioned

\* C5, amended: for every PTYP, PCNT and PVTX with len(PTYP) = len(PCNT),
\* sum(PCNT) = len(PVTX) and no negative entry in PCNT, load_faces returns
\* len(PCNT) groups, group k of kind PTYP[k] with PCNT[k] indices, whose
\* concatenation is PVTX.
C5_FacesPartition ==
    (/\ arg.f = "load_faces"
     /\ pc = "return"
     /\ Len(arg.ptyp) = Len(arg.pcnt)
     /\ SumSeq(arg.pcnt) = Len(arg.pvtx)
     /\ \A k \in 1..Len(arg.pcnt) : arg.pcnt[k] >= 0) => FacesPartitioned

\* Three indices were split into a group of two and a group of one.
C5_Witness ==
    /\ pc = "return"
    /\ arg.f = "load_faces"
    /\ arg.ptyp = <<4, 5>>
    /\ arg.pcnt = <<2, 1>>
    /\ arg.pvtx = <<5, 6, 7>>
    /\ ret.err = "none"
    /\ ret.val[2].indices = <<7>>

(***************************************************************************)
(* Specification of load_keyframe                                          *)
(***************************************************************************)
\* The width of the value of a track, by its tag.
ValueWidth(tag) == IF tag \in {KMTA, KMTF} THEN 4 ELSE 12

\* The offsets the tracks of the buffers start at.
TrackOffsets == {0, 4, 24}

KeyframeInit ==
    \E tag \in {KMTA, KMTF, KTAT, KTAR, KTAS} :
    \E count \in 0..MaxCount :
    \E code \in 0..3 :
    \E j \in TrackOffsets :
    \E cut \in 0..MaxCut :
    \E more \in {0, 5} :
        LET track == TrackBytes(tag, count, code, ValueWidth(tag))
            whole == Fill(j) \o track \o Fill(more)
        IN  Harness([f |-> "load_keyframe", tag |-> tag, count |-> count,
                     code |-> code, j |-> j, cut |-> cut, more |-> more,
                     buf |-> IF cut = 0 THEN whole
                             ELSE SubSeq(whole, 1, j + Len(track) - cut)])

\* load_material_keyframe or load_texture_keyframe, which call load_keyframe
\* with the decoders of the tag, on the track at offset j of the buffer.
KeyframeCall ==
    /\ pc = "call"
    /\ arg.f = "load_keyframe"
    /\ \E r \in {IF arg.tag \in {KMTA, KMTF}
                 THEN load_material_keyframe(arg.buf, arg.j)
                 ELSE load_texture_keyframe(arg.buf, arg.j)} :
           /\ ret' = r
           /\ err' = r.err
    /\ pc' = "return"
    /\ UNCHANGED <<file, self, buf, i, loc, hist, arg>>

KeyframeSpec == KeyframeInit /\ [][KeyframeCall]_vars

\* C7: for a track at offset j with count >= 0 entries and values of width w
\* (4 for KMTA and KMTF, 12 for KTAT, KTAR and KTAS), load_keyframe returns
\* j + 16 + count*(4 + w) when the interpolation kind is step or linear and
\* j + 16 + count*(4 + 3*w) when it is hermite or bezier, with exactly count
\* keyframes, whose tangents are present if and only if the kind is hermite
\* or bezier (and are None otherwise).
C7_KeyframeShape ==
    (arg.f = "load_keyframe" /\ pc = "return") =>
        /\ (arg.cut = 0 /\ LineType(arg.code).err = "none") => ret.err = "none"
        /\ ret.err = "none" =>
              LET w     == ValueWidth(arg.tag)
                  kind  == ret.val.linetype
                  curve == kind \in {"Hermite", "Bezier"}
              IN  /\ kind = LineType(arg.code).val
                  /\ kind \in {"DontInterp", "Linear"} =>
                        ret.j = arg.j + 16 + arg.count * (4 + w)
                  /\ curve => ret.j = arg.j + 16 + arg.count * (4 + 3 * w)
                  /\ Len(ret.val.keyframes) = arg.count
                  /\ \A k \in 1..Len(ret.val.keyframes) :
                        /\ ret.val.keyframes[k].tin # None <=> curve
                        /\ ret.val.keyframes[k].tout # None <=> curve

\* A bezier rotation track of two keyframes was decoded from offset 4, with
\* bytes of another track after it.
C7_Witness ==
    /\ pc = "return"
    /\ arg.f = "load_keyframe"
    /\ arg.tag = KTAR
    /\ arg.count = 2
    /\ arg.j = 4
    /\ arg.more = 5
    /\ ret.err = "none"
    /\ ret.val.linetype = "Bezier"
    /\ ret.j = 4 + 16 + 2 * 40

(***************************************************************************)
(* Specification of the decoding of a fixed-length name                    *)
(***************************************************************************)
\* The widths of the name fields: '<80s' and '256s'.
NameWidths == {80, 256}

NameInit ==
    \E width \in NameWidths :
    \E text \in SeqsUpTo({0, 65, 66, 200}, MaxName) \cup {Fill(width)} :
        Harness([f |-> "decode_name", field |-> NameField(text, width)])

\* name.rstrip(b'\x00').decode("ascii") on the field.
NameCall ==
    /\ pc = "call"
    /\ arg.f = "decode_name"
    /\ \E r \in {decode_name(arg.field)} :
           /\ ret' = r
           /\ err' = r.err
    /\ pc' = "return"
    /\ UNCHANGED <<file, self, buf, i, loc, hist, arg>>

NameSpec == NameInit /\ [][NameCall]_vars

\* The bytes of a field that precede its first null byte.
BeforeFirstNull(field) ==
    LET nulls == {k \in 1..Len(field) : field[k] = 0}
        first == IF nulls = {} THEN Len(field) + 1
                 ELSE CHOOSE k \in nulls : \A m \in nulls : k <= m
    IN  SubSeq(field, 1, first - 1)

\* C8: the decoded text of a fixed-length name field is the bytes before the
\* first null byte of the field (the whole field when it has none), so bytes
\* after the first null never appear in the name; the decode fails exactly
\* when a non-ASCII byte precedes the first null.
C8_NameTrimmedAtFirstNull ==
    (arg.f = "decode_name" /\ pc = "return") =>
        LET text == BeforeFirstNull(arg.field)
        IN  IF \E k \in 1..Len(text) : text[k] >= 128
            THEN ret.err = "UnicodeDecodeError"
            ELSE ret.err = "none" /\ ret.val = text

====
